---- MODULE Spec2Model ----
(***************************************************************************)
(* The trading engine of DhanAlgoWeb: the position store, trade placement, *)
(* paper-to-live conversion and the monitor loop (src/trading_engine.py),  *)
(* the /trade, /convert and /settings routes (src/app.py), the channel     *)
(* throttle (src/config_manager.py) and the notifier calls                 *)
(* (src/notifications.py).                                                 *)
(*                                                                         *)
(* Prices are whole numbers of ticks; one tick stands for 10.0 rupees, so  *)
(* the default entry 100.0 is 10 ticks and the conversion stop distance 20 *)
(* is 2 ticks.  Stop distances are even numbers of ticks, which keeps the  *)
(* 0.5 multiplier exact, as it is in binary floating point.                *)
(***************************************************************************)
EXTENDS Integers, Sequences, FiniteSets, TLC

VARIABLES
    active_trades,  \* the dict self.active_trades, in insertion order: <<[id, ref]>>
    objs,           \* the trade dicts the store and the snapshot refer to, by reference
    next_uid,       \* number of trade dicts created so far
    persisted,      \* content of data/trades.json
    is_connected,   \* self.is_connected
    trading_mode,   \* cfg.config['trading_mode']
    stats_date,     \* cfg.config['daily_stats']['date']
    free_count,     \* cfg.config['daily_stats']['free_count']
    now,            \* int(time.time())
    pc,             \* position of the monitor thread in run_loop
    snapshot,       \* the rest of list(self.active_trades.items()) in the for loop
    out,            \* what the last step did: inputs, result, notifier calls
    closed,         \* history: closed events emitted per trade dict
    used_ids,       \* history: ids assigned by place_trade so far
    entry_seg,      \* history: the segment each trade dict's entry price came from
    delivered,      \* history: the notifier's HTTP posts of the last step went through
    calc,           \* inputs and result of a direct calculate_targets call
    mon_ltp,        \* the monitor thread's local ltp while it is inside the for body
    req,            \* the locals of a request thread that is switched out inside a handler
    free_routed     \* history: positions created with channel 'Free Group', per day

vars == <<active_trades, objs, next_uid, persisted, is_connected, trading_mode,
          stats_date, free_count, now, pc, snapshot, out, closed, used_ids, entry_seg, delivered, req, free_routed, calc,
          mon_ltp>>

-----------------------------------------------------------------------------
\* Bounds of the model
MaxPrice == 17
MaxTime == 1
MaxTrades == 2
DayLen == 1
MaxRiskSteps == 3
QuoteLevels == 0
PriceMargin == 0

\* Program constants, in ticks
DefaultEntry == 10
ConvertSL == 2
AutoSL == 2
AutoQty == 50

\* What the price source may answer to the monitor: no data (0), or a price at or
\* next to a level the monitor compares with (stop, entry, T1, T5 of a trade
\* entered at the default entry with the conversion stop distance)
Levels ==
    {DefaultEntry + k * ConvertSL : k \in {-3, -1, 0, 1, 3}}
    \cup {(2 * DefaultEntry + k * ConvertSL) \div 2 : k \in {-1, 1}}
Prices ==
    {0} \cup {p \in 1..MaxPrice : \E l \in Levels : p - l \in (0 - PriceMargin)..PriceMargin}
\* What the price source may answer when a trade is placed
PlaceQuotes == {0} \cup {DefaultEntry + k : k \in 0..QuoteLevels}
Symbols == {"NIFTY"}
AutoSymbol == "NIFTY"
Directions == {"BUY", "SELL"}
Channels == {"Free Group", "VIP Channel"}
Modes == {"PAPER", "LIVE"}
\* A numeric form field: its text parses to val, or does not parse (ok = FALSE)
Field(v) == [ok |-> TRUE, val |-> v]
BadNumber == [ok |-> FALSE, val |-> 0]
\* The /trade forms tried: final_security_id, qty, sl
Form(sec_id, qtyF, slF) == [sec_id |-> sec_id, qty |-> qtyF, sl |-> slF]
Forms == {Form("101", Field(50), Field(2)), Form("101", Field(50), Field(0)),
          Form("101", Field(50), BadNumber), Form("101", BadNumber, Field(2)),
          Form("101", Field(0), Field(2)), Form("", Field(50), Field(2))}
ValidForms == {f \in Forms : f.sec_id # "" /\ f.qty.ok /\ f.sl.ok /\ f.qty.val > 0}
RiskInputs == {2 * k : k \in 1..MaxRiskSteps}
Ids == Symbols \X (0..MaxTime)
NoId == <<>>
NoObj == [status |-> "FREED"]
NoCalc == [done |-> FALSE]
\* data/trades.json absent, or holding text json.load rejects
NoFile == [ok |-> FALSE, recs |-> <<>>]

Day(t) == t \div DayLen
Days == {Day(t) : t \in 0..MaxTime}
\* No request thread is switched out inside a handler
NoRequest == [op |-> "none"]

-----------------------------------------------------------------------------
\* Target calculator

Multipliers10 == <<5, 10, 15, 20, 30>>

Factor(direction) == IF direction = "BUY" THEN 1 ELSE -1

\* Mutant: the direction is ignored, every trade is laid out as a BUY
calculate_targets_AsBuy(entry, sl_points, direction) ==
    [sl_price |-> entry - sl_points,
     targets  |-> [i \in 1..Len(Multipliers10) |->
                     entry + ((sl_points * Multipliers10[i]) \div 10)]]

calculate_targets(entry, sl_points, direction) ==
    LET factor == Factor(direction)
    IN [sl_price |-> entry - (sl_points * factor),
        targets  |-> [i \in 1..Len(Multipliers10) |->
                        entry + ((sl_points * Multipliers10[i] * factor) \div 10)]]

-----------------------------------------------------------------------------
\* The store: a dict of references, kept in insertion order

Keys(at) == {at[i].id : i \in 1..Len(at)}
Refs(at) == {at[i].ref : i \in 1..Len(at)}
SnapRefs(snap) == {snap[i].ref : i \in 1..Len(snap)}

\* dict.get: the reference stored under id, 0 (None) when absent
Get(at, id) ==
    IF id \in Keys(at)
    THEN at[CHOOSE i \in 1..Len(at) : at[i].id = id].ref
    ELSE 0

\* d[id] = ref: an existing key keeps its place, a new key goes last
Put(at, id, ref) ==
    IF id \in Keys(at)
    THEN [i \in 1..Len(at) |-> IF at[i].id = id THEN [id |-> id, ref |-> ref] ELSE at[i]]
    ELSE Append(at, [id |-> id, ref |-> ref])

\* del d[id]
Del(at, id) == SelectSeq(at, LAMBDA e : e.id # id)

\* json.dump(self.active_trades): the records by value, in dict order
Dump(at, ob) == [ok |-> TRUE, recs |-> [i \in 1..Len(at) |-> ob[at[i].ref]]]

save_trades(at, ob) == Dump(at, ob)

\* Mutant: the first record of the file is lost
load_trades_DropFirst(file) ==
    IF file.ok /\ file.recs # <<>> THEN Tail(file.recs) ELSE <<>>

\* json.load, or {} when the file is absent or unreadable
load_trades(file) == IF file.ok THEN file.recs ELSE <<>>

\* A trade dict nothing refers to any more is freed: not the store, not the
\* monitor's list, not a local variable of a request thread (held)
CollectFree(ob, at, snap, held) ==
    [u \in DOMAIN ob |->
        IF u \in Refs(at) \cup SnapRefs(snap) \cup held THEN ob[u] ELSE NoObj]

\* The trade dict t that a convert_to_live call switched out after line 170 holds
HeldRefs == IF req.op = "convert" THEN {req.tref} ELSE {}

Collect(ob, at, snap) == CollectFree(ob, at, snap, HeldRefs)

-----------------------------------------------------------------------------
\* Price source

\* resp is the last price the broker API answers with, 0 when it has none
get_latest_price(connected, security_id, resp) ==
    IF ~connected THEN 0
    ELSE IF security_id = "" THEN 0
    ELSE resp

-----------------------------------------------------------------------------
\* Channel throttle

get_target_channel(requested_channel, sdate, fcount, today) ==
    LET fc == IF sdate # today THEN 0 ELSE fcount
    IN [date       |-> today,
        free_count |-> fc,
        channel    |-> IF requested_channel = "Free Group" /\ fc >= 1
                       THEN "VIP Channel" ELSE requested_channel]

increment_trade_count(channel, fcount) ==
    IF channel = "Free Group" THEN fcount + 1 ELSE fcount

-----------------------------------------------------------------------------
\* Notifier calls

\* A call of the notifier: ref names the trade dict it is about, t is the
\* trade_data passed by value
NoEvent(type, channel) ==
    [type |-> type, channel |-> channel, ref |-> 0, t |-> NoObj, reason |-> "",
     exit_price |-> 0, pnl |-> 0, max_price |-> 0]

\* Mutant: the exception of requests.post leaves send_msg
send_msg_Propagates(postOk) == postOk

\* send_msg returns normally whether requests.post returned (postOk) or raised:
\* the exception is caught and printed
send_msg(postOk) == TRUE

\* Every send_msg call made for the notifications of a step returned normally
Delivered(notifs, postOk) == \A i \in 1..Len(notifs) : send_msg(postOk)

notify_add(channel) == NoEvent("add", channel)

notify_active(channel, ref, t) ==
    [NoEvent("active", channel) EXCEPT !.ref = ref, !.t = t]

notify_update(channel, ref) == [NoEvent("update", channel) EXCEPT !.ref = ref]

notify_exit(channel, ref, t, reason, exit_price) ==
    LET pnl == (exit_price - t.entry_price) * t.qty
    IN [type |-> "exit", channel |-> channel, ref |-> ref, t |-> t, reason |-> reason,
        exit_price |-> exit_price,
        pnl |-> IF t.direction = "SELL" THEN pnl * (-1) ELSE pnl,
        max_price |-> t.max_price]

-----------------------------------------------------------------------------
\* Results of a step

Out(op) ==
    [op |-> op, msg |-> "", notifs |-> <<>>, ref |-> 0, id |-> NoId, raised |-> FALSE,
     seen |-> <<>>]

-----------------------------------------------------------------------------
\* Trade placement

\* The engine and config state place_trade reads and writes
Engine ==
    [at |-> active_trades, ob |-> objs, nuid |-> next_uid, file |-> persisted,
     sdate |-> stats_date, fcount |-> free_count, used |-> used_ids]

NewTrade(trade_id, symbol, security_id, direction, qty, entry_price, ex, channel, mode) ==
    [id |-> trade_id, symbol |-> symbol, sec_id |-> security_id,
     direction |-> direction, qty |-> qty, entry_price |-> entry_price,
     sl_price |-> ex.sl_price, targets |-> ex.targets, channel |-> channel,
     mode |-> mode, max_price |-> entry_price, t1_hit |-> FALSE, status |-> "ACTIVE"]

EntryPrice(connected, security_id, pf, pe) ==
    LET fno == get_latest_price(connected, security_id, pf)
        eq  == IF fno = 0 THEN get_latest_price(connected, security_id, pe) ELSE fno
    IN IF eq = 0 THEN DefaultEntry ELSE eq

\* The segment whose answer became the entry price; NoSegment for the 100.0 default
NoSegment == "NONE"
EntrySegment(connected, security_id, pf, pe) ==
    IF get_latest_price(connected, security_id, pf) # 0 THEN "NSE_FNO"
    ELSE IF get_latest_price(connected, security_id, pe) # 0 THEN "NSE_EQ"
    ELSE NoSegment

\* The segment the monitor asks the price source for
MonitorSegment == "NSE_FNO"

trade_id_of(symbol, t) == <<symbol, t>>

\* Lines 131-165, run by a request that got target_channel from
\* get_target_channel: e is the engine and config state it finds.
\* pf, pe: the API's answers for NSE_FNO and NSE_EQ; orderOk: place_order returns;
\* saveOk: save_trades returns; failFile: the file a failed save leaves behind
place_trade_body(e, target_channel, symbol, security_id, direction, qty, sl_points, mode, pf, pe, orderOk, saveOk, failFile) ==
    LET entry_price == EntryPrice(is_connected, security_id, pf, pe)
        ex == calculate_targets(entry_price, sl_points, direction)
        trade_id == trade_id_of(symbol, now)
        ref == e.nuid + 1
        t == NewTrade(trade_id, symbol, security_id, direction, qty, entry_price,
                      ex, target_channel, mode)
        at2 == Put(e.at, trade_id, ref)
        ob2 == [e.ob EXCEPT ![ref] = t]
    IN IF mode = "LIVE" /\ is_connected /\ ~orderOk
       THEN [st |-> e, msg |-> "API Error", notifs |-> <<>>, raised |-> FALSE,
             ref |-> 0, id |-> NoId]
       ELSE IF ~saveOk
       THEN [st |-> [e EXCEPT !.at = at2, !.ob = ob2, !.nuid = ref,
                              !.file = failFile, !.used = @ \cup {trade_id}],
             msg |-> "", notifs |-> <<>>, raised |-> TRUE, ref |-> ref, id |-> trade_id]
       ELSE [st |-> [e EXCEPT !.at = at2, !.ob = ob2, !.nuid = ref,
                              !.file = save_trades(at2, ob2),
                              !.fcount = increment_trade_count(target_channel, e.fcount),
                              !.used = @ \cup {trade_id}],
             msg |-> "Trade Executed Successfully",
             notifs |-> <<notify_add(target_channel), notify_active(target_channel, ref, t)>>,
             raised |-> FALSE, ref |-> ref, id |-> trade_id]

\* Mutant: the exception of place_order is swallowed and the trade recorded
place_trade_OrderIgnored(e, symbol, security_id, direction, qty, channel, sl_points, mode, pf, pe, orderOk, saveOk, failFile) ==
    LET tc == get_target_channel(channel, e.sdate, e.fcount, Day(now))
    IN place_trade_body([e EXCEPT !.sdate = tc.date, !.fcount = tc.free_count],
                        tc.channel, symbol, security_id, direction, qty, sl_points,
                        mode, pf, pe, TRUE, saveOk, failFile)

\* Line 129, then lines 131-165
place_trade(e, symbol, security_id, direction, qty, channel, sl_points, mode, pf, pe, orderOk, saveOk, failFile) ==
    LET tc == get_target_channel(channel, e.sdate, e.fcount, Day(now))
    IN place_trade_body([e EXCEPT !.sdate = tc.date, !.fcount = tc.free_count],
                        tc.channel, symbol, security_id, direction, qty, sl_points,
                        mode, pf, pe, orderOk, saveOk, failFile)

\* The file after a save that raised: untouched (open failed) or truncated
FailFiles == {persisted, NoFile}
FailedSave(saveOk) == IF saveOk THEN {persisted} ELSE FailFiles

\* Assign the engine state a handler leaves behind
Commit(st, o) ==
    /\ active_trades' = st.at
    /\ objs' = Collect(st.ob, st.at, snapshot)
    /\ next_uid' = st.nuid
    /\ persisted' = st.file
    /\ stats_date' = st.sdate
    /\ free_count' = st.fcount
    /\ used_ids' = st.used
    /\ out' = o

-----------------------------------------------------------------------------
\* Monitor: the evaluation of one position against one price

\* Mutant: max_price follows the last price
UpdateMax_Last(t, ltp) == [t EXCEPT !.max_price = ltp]

UpdateMax(t, ltp) ==
    IF t.direction = "BUY"
    THEN (IF ltp > t.max_price THEN [t EXCEPT !.max_price = ltp] ELSE t)
    ELSE (IF ltp < t.max_price THEN [t EXCEPT !.max_price = ltp] ELSE t)

\* Mutant: the test does not look at the flag
T1Reached_NoGuard(t, ltp) ==
    \/ t.direction = "BUY" /\ ltp >= t.targets[1]
    \/ t.direction = "SELL" /\ ltp <= t.targets[1]

T1Reached(t, ltp) ==
    /\ ~t.t1_hit
    /\ \/ t.direction = "BUY" /\ ltp >= t.targets[1]
       \/ t.direction = "SELL" /\ ltp <= t.targets[1]

\* Mutant: the flag is set but the stop is left where it was
PromoteT1_KeepStop(t, ltp) ==
    IF T1Reached(t, ltp) THEN [t EXCEPT !.t1_hit = TRUE] ELSE t

PromoteT1(t, ltp) ==
    IF T1Reached(t, ltp)
    THEN [t EXCEPT !.t1_hit = TRUE, !.sl_price = t.entry_price]
    ELSE t

\* Mutant: Target 5 is checked before the stop
ExitReason_T5First(t, ltp) ==
    IF t.direction = "BUY"
    THEN (IF ltp >= t.targets[5] THEN "Target 5 Hit"
          ELSE IF ltp <= t.sl_price THEN "SL Hit" ELSE "")
    ELSE (IF ltp <= t.targets[5] THEN "Target 5 Hit"
          ELSE IF ltp >= t.sl_price THEN "SL Hit" ELSE "")

\* Mutant: only the stop closes a position
ExitReason_StopOnly(t, ltp) ==
    IF t.direction = "BUY"
    THEN (IF ltp <= t.sl_price THEN "SL Hit" ELSE "")
    ELSE (IF ltp >= t.sl_price THEN "SL Hit" ELSE "")

ExitReason(t, ltp) ==
    IF t.direction = "BUY"
    THEN (IF ltp <= t.sl_price THEN "SL Hit"
          ELSE IF ltp >= t.targets[5] THEN "Target 5 Hit" ELSE "")
    ELSE (IF ltp >= t.sl_price THEN "SL Hit"
          ELSE IF ltp <= t.targets[5] THEN "Target 5 Hit" ELSE "")

\* The price the monitor evaluates: the fetched one, or entry_price for none
Ltp(t, fetched) == IF fetched = 0 THEN t.entry_price ELSE fetched

Evaluate(t, ref, fetched) ==
    LET ltp == Ltp(t, fetched)
        t2 == UpdateMax(t, ltp)
        hit == T1Reached(t2, ltp)
        t3 == PromoteT1(t2, ltp)
        reason == ExitReason(t3, ltp)
    IN [t |-> t3, ltp |-> ltp, reason |-> reason,
        notifs |-> (IF hit THEN <<notify_update(t3.channel, ref)>> ELSE <<>>)
                   \o (IF reason # ""
                       THEN <<notify_exit(t3.channel, ref, t3, reason, ltp)>>
                       ELSE <<>>)]

-----------------------------------------------------------------------------
\* Initial state: the engine as constructed over an absent trades file

Init ==
    /\ persisted = NoFile
    /\ active_trades = load_trades(persisted)
    /\ objs = [u \in 1..MaxTrades |-> NoObj]
    /\ next_uid = 0
    /\ is_connected = FALSE
    /\ trading_mode = "PAPER"
    /\ stats_date = Day(0)
    /\ free_count = 0
    /\ now = 0
    /\ pc = "loop"
    /\ snapshot = <<>>
    /\ out = Out("init")
    /\ closed = [u \in 1..MaxTrades |-> 0]
    /\ used_ids = {}
    /\ entry_seg = [u \in 1..MaxTrades |-> NoSegment]
    /\ delivered = TRUE
    /\ calc = NoCalc
    /\ mon_ltp = 0
    /\ req = NoRequest
    /\ free_routed = [d \in Days |-> 0]

-----------------------------------------------------------------------------
\* Request handlers

\* POST /trade
TradeRoute(sec_id, symbol, direction, chan, qtyF, slF, pf, pe, orderOk, saveOk, failFile) ==
    LET bad == ~qtyF.ok \/ ~slF.ok
        qty == IF bad THEN 0 ELSE qtyF.val
        sl  == IF bad THEN 0 ELSE slF.val
    IN /\ IF qty > 0 /\ sec_id # ""
          THEN /\ next_uid < MaxTrades
               /\ \E r \in {place_trade(Engine, symbol, sec_id, direction, qty, chan, sl,
                                          trading_mode, pf, pe, orderOk, saveOk, failFile)} :
                      Commit(r.st, [Out("trade") EXCEPT
                                      !.msg = IF r.raised THEN "500" ELSE r.msg,
                                      !.notifs = r.notifs, !.ref = r.ref, !.id = r.id,
                                      !.raised = r.raised])
          ELSE Commit(Engine, [Out("trade") EXCEPT
                                 !.msg = "Error: Invalid Option/Symbol or Quantity."])
       /\ UNCHANGED <<is_connected, trading_mode, now, pc, snapshot, closed, calc, mon_ltp>>

\* GET /convert/<tid>
convert_to_live(trade_id, pf, pe, orderOk, saveOk, save2Ok, failFile) ==
    LET tref == Get(active_trades, trade_id)
    IN /\ IF tref # 0 /\ objs[tref].mode = "PAPER"
          THEN /\ next_uid < MaxTrades
               /\ \E t \in {objs[tref]} :
                  \E r \in {place_trade(Engine, t.symbol, t.sec_id, t.direction, t.qty,
                                          "VIP Channel", ConvertSL, "LIVE",
                                          pf, pe, orderOk, saveOk, failFile)} :
                  LET ob3 == [r.st.ob EXCEPT ![tref].status = "CONVERTED_TO_LIVE"]
                      o == [Out("convert") EXCEPT !.notifs = r.notifs, !.ref = r.ref,
                                                  !.id = r.id]
                  IN IF r.raised
                     THEN Commit(r.st, [o EXCEPT !.msg = "500", !.raised = TRUE])
                     ELSE IF ~save2Ok
                     THEN Commit([r.st EXCEPT !.ob = ob3,
                                              !.file = IF failFile = persisted
                                                       THEN r.st.file ELSE failFile],
                                 [o EXCEPT !.msg = "500", !.raised = TRUE])
                     ELSE Commit([r.st EXCEPT !.ob = ob3,
                                              !.file = save_trades(r.st.at, ob3)],
                                 [o EXCEPT !.msg = IF r.msg = "API Error"
                                                   THEN "Converted: API Error"
                                                   ELSE "Converted: Trade Executed Successfully"])
          ELSE Commit(Engine, [Out("convert") EXCEPT !.msg = "Invalid Trade"])
       /\ UNCHANGED <<is_connected, trading_mode, now, pc, snapshot, closed, calc, mon_ltp>>

\* POST /trade when the request thread is switched out between get_target_channel
\* (line 129) and the rest of place_trade: first the form, the mode and the channel
TradeRouteChannel(sec_id, symbol, direction, chan, qtyF, slF) ==
    /\ req = NoRequest
    /\ qtyF.ok /\ slF.ok /\ qtyF.val > 0 /\ sec_id # ""
    /\ \E tc \in {get_target_channel(chan, stats_date, free_count, Day(now))} :
          /\ stats_date' = tc.date
          /\ free_count' = tc.free_count
          /\ req' = [op |-> "trade", symbol |-> symbol, sec_id |-> sec_id,
                     direction |-> direction, qty |-> qtyF.val, sl |-> slF.val,
                     mode |-> trading_mode, target_channel |-> tc.channel]
    /\ out' = Out("channel")
    /\ UNCHANGED <<active_trades, objs, next_uid, persisted, is_connected, trading_mode,
                   now, pc, snapshot, closed, used_ids, calc, mon_ltp>>

\* ... then lines 131-165 and the answer of the route
TradeRouteRest(pf, pe, orderOk, saveOk, failFile) ==
    /\ req.op = "trade"
    /\ next_uid < MaxTrades
    /\ \E r \in {place_trade_body(Engine, req.target_channel, req.symbol, req.sec_id,
                                   req.direction, req.qty, req.sl, req.mode, pf, pe,
                                   orderOk, saveOk, failFile)} :
           Commit(r.st, [Out("trade") EXCEPT
                           !.msg = IF r.raised THEN "500" ELSE r.msg,
                           !.notifs = r.notifs, !.ref = r.ref, !.id = r.id,
                           !.raised = r.raised])
    /\ req' = NoRequest
    /\ UNCHANGED <<is_connected, trading_mode, now, pc, snapshot, closed, calc, mon_ltp>>

\* GET /convert/<tid> when the request thread is switched out between the return
\* of place_trade (line 170) and t['status'] = "CONVERTED_TO_LIVE" (line 171):
\* first lines 168-170
ConvertPlace(trade_id, pf, pe, orderOk) ==
    /\ req = NoRequest
    /\ IF Get(active_trades, trade_id) # 0
       THEN objs[Get(active_trades, trade_id)].mode = "PAPER"
       ELSE FALSE
    /\ next_uid < MaxTrades
    /\ \E tref \in {Get(active_trades, trade_id)} :
       \E r \in {place_trade(Engine, objs[tref].symbol, objs[tref].sec_id,
                              objs[tref].direction, objs[tref].qty, "VIP Channel",
                              ConvertSL, "LIVE", pf, pe, orderOk, TRUE, persisted)} :
          /\ active_trades' = r.st.at
          /\ objs' = CollectFree(r.st.ob, r.st.at, snapshot, {tref})
          /\ next_uid' = r.st.nuid
          /\ persisted' = r.st.file
          /\ stats_date' = r.st.sdate
          /\ free_count' = r.st.fcount
          /\ used_ids' = r.st.used
          /\ req' = [op |-> "convert", tref |-> tref, res |-> r.msg, ref |-> r.ref,
                     id |-> r.id]
          /\ out' = [Out("place") EXCEPT !.msg = r.msg, !.notifs = r.notifs,
                                         !.ref = r.ref, !.id = r.id]
    /\ UNCHANGED <<is_connected, trading_mode, now, pc, snapshot, closed, calc, mon_ltp>>

\* ... then lines 171-173, on the trade dict t the thread still holds
ConvertMark ==
    /\ req.op = "convert"
    /\ \E ob3 \in {[objs EXCEPT ![req.tref].status = "CONVERTED_TO_LIVE"]} :
          /\ objs' = CollectFree(ob3, active_trades, snapshot, {})
          /\ persisted' = save_trades(active_trades, ob3)
    /\ out' = [Out("convert") EXCEPT
                  !.msg = IF req.res = "API Error" THEN "Converted: API Error"
                          ELSE "Converted: Trade Executed Successfully",
                  !.ref = req.ref, !.id = req.id]
    /\ req' = NoRequest
    /\ UNCHANGED <<active_trades, next_uid, is_connected, trading_mode, stats_date,
                   free_count, now, pc, snapshot, closed, used_ids, calc, mon_ltp>>

\* POST /settings, with connect_api
Settings(mode, creds) ==
    /\ trading_mode' = mode
    /\ is_connected' = CASE creds = "good" -> TRUE
                         [] creds = "bad" -> FALSE
                         [] OTHER -> is_connected
    /\ out' = Out("settings")
    /\ UNCHANGED <<active_trades, objs, next_uid, persisted, stats_date, free_count,
                   now, pc, snapshot, closed, used_ids, entry_seg, delivered, req, free_routed, calc, mon_ltp>>

\* A second passes on the wall clock
Tick ==
    /\ now < MaxTime
    /\ now' = now + 1
    /\ out' = Out("tick")
    /\ UNCHANGED <<active_trades, objs, next_uid, persisted, is_connected, trading_mode,
                   stats_date, free_count, pc, snapshot, closed, used_ids, entry_seg, delivered, req, free_routed, calc, mon_ltp>>

\* The process is started again: the engine is constructed over the file as it
\* is, the monitor thread starts anew, connect_api runs with the saved credentials
Restart(connects) ==
    /\ \E recs \in {load_trades(persisted)} :
          /\ Len(recs) <= MaxTrades
          /\ active_trades' = [i \in 1..Len(recs) |-> [id |-> recs[i].id, ref |-> i]]
          /\ objs' = [u \in 1..MaxTrades |-> IF u <= Len(recs) THEN recs[u] ELSE NoObj]
          /\ next_uid' = Len(recs)
    /\ is_connected' = connects
    /\ pc' = "loop"
    /\ snapshot' = <<>>
    /\ mon_ltp' = 0
    /\ closed' = [u \in 1..MaxTrades |-> 0]
    /\ out' = Out("restart")
    /\ UNCHANGED <<persisted, trading_mode, stats_date, free_count, now, used_ids,
                   entry_seg, delivered, req, free_routed, calc>>

-----------------------------------------------------------------------------
\* The monitor thread, run_loop

\* The 09:54:00 automatic paper trade; whatever place_trade raises is swallowed
MonitorAutoTrade(pf, pe, saveOk, failFile) ==
    /\ pc = "loop"
    /\ is_connected
    /\ next_uid < MaxTrades
    /\ \E r \in {place_trade(Engine, AutoSymbol, "101", "BUY", AutoQty, "VIP Channel",
                               AutoSL, "PAPER", pf, pe, TRUE, saveOk, failFile)} :
           Commit(r.st, [Out("auto") EXCEPT !.msg = r.msg, !.notifs = r.notifs,
                                            !.ref = r.ref, !.id = r.id,
                                            !.raised = r.raised])
    /\ pc' = "snap"
    /\ UNCHANGED <<is_connected, trading_mode, now, snapshot, closed, calc, mon_ltp>>

\* Mutant: the loop iterates over all but the first position of the store
MonitorSnapshot_SkipFirst ==
    /\ pc \in {"loop", "snap"}
    /\ snapshot' = IF active_trades = <<>> THEN <<>> ELSE Tail(active_trades)
    /\ pc' = "for"
    /\ out' = Out("snapshot")
    /\ UNCHANGED <<active_trades, objs, next_uid, persisted, is_connected, trading_mode,
                   stats_date, free_count, now, closed, used_ids, entry_seg, delivered, req, free_routed, calc, mon_ltp>>

\* for tid, t in list(self.active_trades.items())
MonitorSnapshot ==
    /\ pc \in {"loop", "snap"}
    /\ snapshot' = active_trades
    /\ pc' = "for"
    /\ out' = Out("snapshot")
    /\ UNCHANGED <<active_trades, objs, next_uid, persisted, is_connected, trading_mode,
                   stats_date, free_count, now, closed, used_ids, entry_seg, delivered, req, free_routed, calc, mon_ltp>>

\* The end of a pass: the position stays, or is closed, deleted and the store saved
FinishEval(tid, ref, ev, rest, saveOk, failFile) ==
    LET ob2 == [objs EXCEPT ![ref] = ev.t]
        o == [Out("eval") EXCEPT !.ref = ref, !.id = tid, !.notifs = ev.notifs]
    IN IF ev.reason = ""
       THEN /\ snapshot' = rest
            /\ objs' = Collect(ob2, active_trades, rest)
            /\ out' = o
            /\ pc' = "for"
            /\ UNCHANGED <<active_trades, persisted, closed>>
       ELSE LET at2 == Del(active_trades, tid)
            IN /\ active_trades' = at2
               /\ closed' = [closed EXCEPT ![ref] = @ + 1]
               /\ IF saveOk
                  THEN /\ persisted' = save_trades(at2, ob2)
                       /\ snapshot' = rest
                       /\ objs' = Collect(ob2, at2, rest)
                       /\ out' = [o EXCEPT !.msg = ev.reason]
                       /\ pc' = "for"
                  ELSE /\ persisted' = failFile
                       /\ snapshot' = <<>>
                       /\ objs' = Collect(ob2, at2, <<>>)
                       /\ out' = [o EXCEPT !.msg = ev.reason, !.raised = TRUE]
                       /\ pc' = "dead"

\* One pass of the for body over the next (tid, t) of the snapshot
MonitorEval(resp, saveOk, failFile) ==
    /\ pc = "for"
    /\ snapshot # <<>>
    /\ LET tid == Head(snapshot).id
           ref == Head(snapshot).ref
           t == objs[ref]
           rest == Tail(snapshot)
       IN IF t.status # "ACTIVE"
          THEN /\ snapshot' = rest
               /\ objs' = Collect(objs, active_trades, rest)
               /\ out' = [Out("skip") EXCEPT !.ref = ref, !.id = tid]
               /\ UNCHANGED <<active_trades, persisted, pc, closed>>
          ELSE \E ev \in {Evaluate(t, ref, get_latest_price(is_connected, t.sec_id, resp))} :
                   FinishEval(tid, ref, ev, rest, saveOk, failFile)
    /\ UNCHANGED <<next_uid, is_connected, trading_mode, stats_date, free_count, now,
                   used_ids, entry_seg, calc, mon_ltp>>

\* The same pass when the thread is switched out between the statements
\* t['t1_hit'] = True and t['sl_price'] = t['entry_price']: first the part up to
\* the flag
MonitorEvalT1Flag(resp) ==
    /\ pc = "for"
    /\ snapshot # <<>>
    /\ LET tid == Head(snapshot).id
           ref == Head(snapshot).ref
           t == objs[ref]
           ltp == Ltp(t, get_latest_price(is_connected, t.sec_id, resp))
           t2 == UpdateMax(t, ltp)
       IN /\ t.status = "ACTIVE"
          /\ T1Reached(t2, ltp)
          /\ objs' = [objs EXCEPT ![ref] = [t2 EXCEPT !.t1_hit = TRUE]]
          /\ mon_ltp' = ltp
          /\ out' = [Out("t1flag") EXCEPT !.ref = ref, !.id = tid]
    /\ pc' = "t1"
    /\ UNCHANGED <<active_trades, next_uid, persisted, is_connected, trading_mode,
                   stats_date, free_count, now, snapshot, closed, used_ids, entry_seg, delivered, req, free_routed, calc>>

\* ... then the rest of the pass, from the move of the stop on
MonitorEvalRest(saveOk, failFile) ==
    /\ pc = "t1"
    /\ LET tid == Head(snapshot).id
           ref == Head(snapshot).ref
           t3 == [objs[ref] EXCEPT !.sl_price = objs[ref].entry_price]
           reason == ExitReason(t3, mon_ltp)
           ev == [t |-> t3, ltp |-> mon_ltp, reason |-> reason,
                  notifs |-> <<notify_update(t3.channel, ref)>>
                             \o (IF reason # ""
                                 THEN <<notify_exit(t3.channel, ref, t3, reason, mon_ltp)>>
                                 ELSE <<>>)]
       IN FinishEval(tid, ref, ev, Tail(snapshot), saveOk, failFile)
    /\ mon_ltp' = 0
    /\ UNCHANGED <<next_uid, is_connected, trading_mode, stats_date, free_count, now,
                   used_ids, entry_seg, delivered, req, free_routed, calc>>

\* GET /: the dashboard renders the records of the store
Index ==
    /\ out' = [Out("index") EXCEPT !.seen = Dump(active_trades, objs).recs]
    /\ UNCHANGED <<active_trades, objs, next_uid, persisted, is_connected, trading_mode,
                   stats_date, free_count, now, pc, snapshot, closed, used_ids, entry_seg, delivered, req, free_routed, calc,
                   mon_ltp>>

\* time.sleep(1) at the end of a cycle
MonitorSleep ==
    /\ pc = "for"
    /\ snapshot = <<>>
    /\ pc' = "loop"
    /\ out' = Out("sleep")
    /\ UNCHANGED <<active_trades, objs, next_uid, persisted, is_connected, trading_mode,
                   stats_date, free_count, now, snapshot, closed, used_ids, entry_seg, delivered, req, free_routed, calc, mon_ltp>>

-----------------------------------------------------------------------------
\* A direct call of the target calculator

Calc(entry, sl_points, direction) ==
    /\ calc' = [done |-> TRUE, entry |-> entry, sl_points |-> sl_points,
                direction |-> direction,
                res |-> calculate_targets(entry, sl_points, direction)]
    /\ UNCHANGED <<active_trades, objs, next_uid, persisted, is_connected, trading_mode,
                   stats_date, free_count, now, pc, snapshot, out, closed, used_ids, entry_seg, delivered, req, free_routed,
                   mon_ltp>>

-----------------------------------------------------------------------------
\* Specifications

\* What the API may answer for NSE_EQ: asked only after NSE_FNO gave no price
EqAnswers(pf) == IF is_connected /\ pf = 0 THEN PlaceQuotes ELSE {0}
FnoAnswers == IF is_connected THEN PlaceQuotes ELSE {0}
MonitorAnswers == IF is_connected THEN Prices ELSE {0}
OrderAnswers(mode) == IF mode = "LIVE" /\ is_connected THEN BOOLEAN ELSE {TRUE}

DoTrade(saves, chans, forms) ==
    \E form \in forms, symbol \in Symbols, direction \in Directions,
       chan \in chans, pf \in FnoAnswers :
        \E pe \in EqAnswers(pf), orderOk \in OrderAnswers(trading_mode),
           saveOk \in saves :
        \E failFile \in FailedSave(saveOk) :
            /\ TradeRoute(form.sec_id, symbol, direction, chan, form.qty, form.sl, pf, pe,
                          orderOk, saveOk, failFile)
            /\ UNCHANGED <<entry_seg, delivered, req, free_routed>>

DoConvert(saves) ==
    \E trade_id \in Ids, pf \in FnoAnswers :
        \E pe \in EqAnswers(pf), orderOk \in OrderAnswers("LIVE"),
           saveOk \in saves, save2Ok \in saves :
        \E failFile \in FailedSave(saveOk /\ save2Ok) :
            /\ convert_to_live(trade_id, pf, pe, orderOk, saveOk, save2Ok, failFile)
            /\ UNCHANGED <<entry_seg, delivered, req, free_routed>>

DoSettings(modes) == \E mode \in modes, creds \in {"empty", "bad", "good"} : Settings(mode, creds)

DoAutoTrade(saves) ==
    \E pf \in FnoAnswers :
        \E pe \in EqAnswers(pf), saveOk \in saves :
        \E failFile \in FailedSave(saveOk) :
            /\ MonitorAutoTrade(pf, pe, saveOk, failFile)
            /\ UNCHANGED <<entry_seg, delivered, req, free_routed>>

DoEval(saves) ==
    \E resp \in MonitorAnswers, saveOk \in saves :
        \E failFile \in FailedSave(saveOk) :
        /\ MonitorEval(resp, saveOk, failFile)
        /\ UNCHANGED <<delivered, req, free_routed>>

Next ==
    \/ DoTrade({TRUE}, {"VIP Channel"}, Forms)
    \/ DoConvert({TRUE})
    \/ DoSettings(Modes)
    \/ Tick
    \/ DoAutoTrade({TRUE})
    \/ MonitorSnapshot
    \/ DoEval({TRUE})
    \/ MonitorSleep

Spec == Init /\ [][Next]_vars

\* The same program with save_trades free to raise, in PAPER mode and with
\* well-formed /trade requests
NextFault ==
    \/ DoTrade(BOOLEAN, {"VIP Channel"}, ValidForms)
    \/ DoConvert(BOOLEAN)
    \/ DoSettings({"PAPER"})
    \/ Tick
    \/ DoAutoTrade(BOOLEAN)
    \/ MonitorSnapshot
    \/ DoEval(BOOLEAN)
    \/ MonitorSleep

SpecFault == Init /\ [][NextFault]_vars

\* The program with the monitor thread switched out inside a pass, and with
\* dashboard reads
DoEvalT1Flag == \E resp \in MonitorAnswers : MonitorEvalT1Flag(resp)

NextRace ==
    \/ DoTrade({TRUE}, {"VIP Channel"}, ValidForms)
    \/ DoConvert({TRUE})
    \/ DoSettings({"PAPER"})
    \/ Tick
    \/ Index
    \/ MonitorSnapshot
    \/ DoEval({TRUE})
    \/ DoEvalT1Flag
    \/ MonitorEvalRest(TRUE, persisted)
    \/ MonitorSleep

SpecRace == Init /\ [][NextRace]_vars

\* The program with the history of entry segments kept: place_trade's new
\* trade dict is tagged with the segment whose answer became its entry price
RecordSegment(security_id, pf, pe) ==
    entry_seg' = IF next_uid' > next_uid
                 THEN [entry_seg EXCEPT ![next_uid'] =
                          EntrySegment(is_connected, security_id, pf, pe)]
                 ELSE entry_seg

DoTradeSeg ==
    \E form \in ValidForms, symbol \in Symbols, direction \in Directions,
       pf \in FnoAnswers :
        \E pe \in EqAnswers(pf) :
            /\ TradeRoute(form.sec_id, symbol, direction, "VIP Channel", form.qty, form.sl,
                          pf, pe, TRUE, TRUE, persisted)
            /\ RecordSegment(form.sec_id, pf, pe)
            /\ UNCHANGED <<delivered, req, free_routed>>

DoConvertSeg ==
    \E trade_id \in Ids, pf \in FnoAnswers :
        \E pe \in EqAnswers(pf), orderOk \in OrderAnswers("LIVE") :
            /\ convert_to_live(trade_id, pf, pe, orderOk, TRUE, TRUE, persisted)
            /\ RecordSegment(objs[Get(active_trades, trade_id)].sec_id, pf, pe)
            /\ UNCHANGED <<delivered, req, free_routed>>

NextSeg ==
    \/ DoTradeSeg
    \/ DoConvertSeg
    \/ DoSettings({"PAPER"})
    \/ Tick
    \/ MonitorSnapshot
    \/ DoEval({TRUE})
    \/ MonitorSleep

SpecSeg == Init /\ [][NextSeg]_vars

\* The program with save_trades free to raise and with restarts of the process
DoRestart == \E connects \in BOOLEAN : Restart(connects)

NextRestart ==
    \/ DoTrade(BOOLEAN, {"VIP Channel"}, ValidForms)
    \/ DoConvert(BOOLEAN)
    \/ DoSettings({"PAPER"})
    \/ Tick
    \/ MonitorSnapshot
    \/ DoEval(BOOLEAN)
    \/ MonitorSleep
    \/ DoRestart

SpecRestart == Init /\ [][NextRestart]_vars

\* The handlers with the outcome of the notifier's HTTP posts: what they do if a
\* send_msg call does not return normally, and what they do otherwise

\* place_trade's notifications come after its save: the exception leaves the
\* record stored and saved, and the route answers 500
TradeRoutePost(sec_id, symbol, direction, chan, qtyF, slF, pf, pe, orderOk, saveOk, failFile, postOk) ==
    LET bad == ~qtyF.ok \/ ~slF.ok
        qty == IF bad THEN 0 ELSE qtyF.val
        sl  == IF bad THEN 0 ELSE slF.val
    IN IF qty > 0 /\ sec_id # "" /\ next_uid < MaxTrades
       THEN \E r \in {place_trade(Engine, symbol, sec_id, direction, qty, chan, sl,
                                  trading_mode, pf, pe, orderOk, saveOk, failFile)} :
                IF ~Delivered(r.notifs, postOk)
                THEN /\ Commit(r.st, [Out("trade") EXCEPT !.msg = "500", !.ref = r.ref,
                                                          !.id = r.id, !.raised = TRUE])
                     /\ UNCHANGED <<is_connected, trading_mode, now, pc, snapshot, closed,
                                    calc, mon_ltp>>
                ELSE TradeRoute(sec_id, symbol, direction, chan, qtyF, slF, pf, pe,
                                orderOk, saveOk, failFile)
       ELSE TradeRoute(sec_id, symbol, direction, chan, qtyF, slF, pf, pe, orderOk,
                       saveOk, failFile)

\* In convert_to_live the exception leaves place_trade before the status of the
\* paper trade is changed
ConvertPost(trade_id, pf, pe, orderOk, saveOk, save2Ok, failFile, postOk) ==
    IF Get(active_trades, trade_id) # 0 /\ next_uid < MaxTrades
    THEN \E t \in {objs[Get(active_trades, trade_id)]} :
         IF t.mode = "PAPER"
         THEN \E r \in {place_trade(Engine, t.symbol, t.sec_id, t.direction, t.qty,
                                    "VIP Channel", ConvertSL, "LIVE", pf, pe, orderOk,
                                    saveOk, failFile)} :
                  IF ~Delivered(r.notifs, postOk)
                  THEN /\ Commit(r.st, [Out("convert") EXCEPT !.msg = "500", !.ref = r.ref,
                                                              !.id = r.id, !.raised = TRUE])
                       /\ UNCHANGED <<is_connected, trading_mode, now, pc, snapshot,
                                      closed, calc, mon_ltp>>
                  ELSE convert_to_live(trade_id, pf, pe, orderOk, saveOk, save2Ok, failFile)
         ELSE convert_to_live(trade_id, pf, pe, orderOk, saveOk, save2Ok, failFile)
    ELSE convert_to_live(trade_id, pf, pe, orderOk, saveOk, save2Ok, failFile)

\* In run_loop the exception leaves the thread: the record keeps what the pass
\* wrote so far, nothing is deleted or saved
MonitorEvalPost(resp, saveOk, failFile, postOk) ==
    /\ pc = "for"
    /\ snapshot # <<>>
    /\ IF objs[Head(snapshot).ref].status = "ACTIVE"
       THEN \E ev \in {Evaluate(objs[Head(snapshot).ref], Head(snapshot).ref,
                                get_latest_price(is_connected,
                                                 objs[Head(snapshot).ref].sec_id, resp))} :
                IF ~Delivered(ev.notifs, postOk)
                THEN /\ objs' = Collect([objs EXCEPT ![Head(snapshot).ref] = ev.t],
                                        active_trades, <<>>)
                     /\ snapshot' = <<>>
                     /\ pc' = "dead"
                     /\ out' = [Out("eval") EXCEPT !.ref = Head(snapshot).ref,
                                                   !.id = Head(snapshot).id,
                                                   !.raised = TRUE]
                     /\ UNCHANGED <<active_trades, persisted, closed, next_uid,
                                    is_connected, trading_mode, stats_date, free_count,
                                    now, used_ids, entry_seg, calc, mon_ltp>>
                ELSE MonitorEval(resp, saveOk, failFile)
       ELSE MonitorEval(resp, saveOk, failFile)

\* The posts of the step went through, or it made none
RecordDelivery(postOk) == delivered' = (postOk \/ out'.notifs = <<>>)

DoTradePost ==
    \E form \in ValidForms, symbol \in Symbols, direction \in Directions,
       pf \in FnoAnswers :
        \E pe \in EqAnswers(pf), orderOk \in OrderAnswers(trading_mode),
           postOk \in BOOLEAN :
            /\ TradeRoutePost(form.sec_id, symbol, direction, "VIP Channel", form.qty,
                              form.sl, pf, pe, orderOk, TRUE, persisted, postOk)
            /\ RecordDelivery(postOk)
            /\ UNCHANGED <<entry_seg, req, free_routed>>

DoConvertPost ==
    \E trade_id \in Ids, pf \in FnoAnswers :
        \E pe \in EqAnswers(pf), orderOk \in OrderAnswers("LIVE"), postOk \in BOOLEAN :
            /\ ConvertPost(trade_id, pf, pe, orderOk, TRUE, TRUE, persisted, postOk)
            /\ RecordDelivery(postOk)
            /\ UNCHANGED <<entry_seg, req, free_routed>>

DoEvalPost ==
    \E resp \in MonitorAnswers, postOk \in BOOLEAN :
        /\ MonitorEvalPost(resp, TRUE, persisted, postOk)
        /\ RecordDelivery(postOk)
        /\ UNCHANGED <<req, free_routed>>

NextNotify ==
    \/ DoTradePost
    \/ DoConvertPost
    \/ DoSettings({"PAPER"})
    \/ Tick
    \/ MonitorSnapshot
    \/ DoEvalPost
    \/ MonitorSleep

SpecNotify == Init /\ [][NextNotify]_vars

\* The program with /trade requests for both channels, one of them at a time
\* switched out after its channel was chosen, and with the history of the
\* positions created for 'Free Group' kept
RecordRouting ==
    free_routed' = IF next_uid' > next_uid /\ objs'[next_uid'].channel = "Free Group"
                   THEN [free_routed EXCEPT ![Day(now)] = @ + 1]
                   ELSE free_routed

DoTradeRouted ==
    \E form \in ValidForms, symbol \in Symbols, direction \in Directions,
       chan \in Channels, pf \in FnoAnswers :
        \E pe \in EqAnswers(pf), orderOk \in OrderAnswers(trading_mode) :
            /\ TradeRoute(form.sec_id, symbol, direction, chan, form.qty, form.sl, pf, pe,
                          orderOk, TRUE, persisted)
            /\ RecordRouting
            /\ UNCHANGED <<entry_seg, delivered, req>>

DoTradeChannel ==
    \E form \in ValidForms, symbol \in Symbols, direction \in Directions,
       chan \in Channels :
        /\ TradeRouteChannel(form.sec_id, symbol, direction, chan, form.qty, form.sl)
        /\ UNCHANGED <<entry_seg, delivered, free_routed>>

DoTradeRest ==
    /\ req.op = "trade"
    /\ \E pf \in FnoAnswers :
          \E pe \in EqAnswers(pf), orderOk \in OrderAnswers(req.mode) :
              /\ TradeRouteRest(pf, pe, orderOk, TRUE, persisted)
              /\ RecordRouting
              /\ UNCHANGED <<entry_seg, delivered>>

NextThrottle ==
    \/ DoTradeRouted
    \/ DoTradeChannel
    \/ DoTradeRest
    \/ DoSettings(Modes)
    \/ Tick

SpecThrottle == Init /\ [][NextThrottle]_vars

\* The program with a convert_to_live call switched out before it marks the
\* paper position, the monitor thread running meanwhile
DoConvertPlace ==
    \E trade_id \in Ids, pf \in FnoAnswers :
        \E pe \in EqAnswers(pf), orderOk \in OrderAnswers("LIVE") :
            /\ ConvertPlace(trade_id, pf, pe, orderOk)
            /\ UNCHANGED <<entry_seg, delivered, free_routed>>

DoConvertMark == ConvertMark /\ UNCHANGED <<entry_seg, delivered, free_routed>>

NextConvert ==
    \/ DoTrade({TRUE}, {"VIP Channel"}, ValidForms)
    \/ DoConvert({TRUE})
    \/ DoConvertPlace
    \/ DoConvertMark
    \/ DoSettings({"PAPER"})
    \/ Tick
    \/ MonitorSnapshot
    \/ DoEval({TRUE})
    \/ MonitorSleep

SpecConvert == Init /\ [][NextConvert]_vars

\* The target calculator on its own
NextCalc ==
    \E entry \in 1..MaxPrice, sl_points \in RiskInputs, direction \in Directions :
        Calc(entry, sl_points, direction)

SpecCalc == Init /\ [][NextCalc]_vars

-----------------------------------------------------------------------------
\* Properties

Alive(u) == objs[u].status # "FREED"
Stored == Refs(active_trades)
ExitEvents == {out.notifs[i] : i \in {j \in 1..Len(out.notifs) : out.notifs[j].type = "exit"}}

\* The distance the targets were laid out with: T2 lies one risk distance from entry
RiskOf(t) == (t.targets[2] - t.entry_price) * Factor(t.direction)

\* The monitor evaluates the stored ACTIVE position u in this step
EvalStepOn(u) ==
    /\ pc = "for" /\ snapshot # <<>>
    /\ Head(snapshot).ref = u
    /\ u \in Stored
    /\ objs[u].status = "ACTIVE"
    /\ out'.op = "eval" /\ out'.ref = u

\* The multipliers 0.5, 1.0, 1.5, 2.0, 3.0 in halves
Halves == <<1, 2, 3, 4, 6>>

\* C1: for every entry e, risk r > 0 and direction, calculate_targets returns
\* stop-loss e - r*factor and exactly five targets Ti = e + r*m*factor for
\* m = 0.5, 1.0, 1.5, 2.0, 3.0 (stated as 2*Ti = 2*e + r*h*factor for
\* h = 1, 2, 3, 4, 6), with factor +1 for BUY and -1 for SELL.
C1_TargetsFormula ==
    (calc.done /\ calc.sl_points > 0) =>
        LET f == IF calc.direction = "BUY" THEN 1 ELSE 0 - 1
        IN /\ calc.res.sl_price = calc.entry - calc.sl_points * f
           /\ DOMAIN calc.res.targets = 1..5
           /\ \A i \in 1..5 :
                2 * calc.res.targets[i] = 2 * calc.entry + calc.sl_points * Halves[i] * f

C1_Witness ==
    /\ calc.done
    /\ calc.direction = "SELL" /\ calc.entry = 10 /\ calc.sl_points = 2
    /\ calc.res.sl_price = 12
    /\ calc.res.targets = <<9, 8, 7, 6, 4>>

\* The stop of every trade dict: one risk distance on the loss side of entry
\* while t1_hit is false, entry_price once t1_hit is true
StopValue ==
    \A u \in 1..MaxTrades :
        Alive(u) =>
            /\ objs[u].t1_hit => objs[u].sl_price = objs[u].entry_price
            /\ ~objs[u].t1_hit =>
                  objs[u].sl_price =
                      objs[u].entry_price - RiskOf(objs[u]) * Factor(objs[u].direction)

\* A step changes the stop of a trade dict only when it sets t1_hit, and then to
\* entry_price; t1_hit starts false and is never cleared
StopMovesOnlyAtT1 ==
    \A u \in 1..MaxTrades :
        /\ (~Alive(u) /\ Alive(u)') => ~objs'[u].t1_hit
        /\ (Alive(u) /\ Alive(u)') =>
              /\ objs[u].t1_hit => objs'[u].t1_hit
              /\ ~objs'[u].t1_hit => objs'[u].sl_price = objs[u].sl_price
              /\ objs'[u].sl_price # objs[u].sl_price =>
                    /\ ~objs[u].t1_hit /\ objs'[u].t1_hit
                    /\ objs'[u].sl_price = objs[u].entry_price

\* C2: after any sequence of /trade placements, convert_to_live calls and
\* monitor cycles, every position has sl_price equal to its creation-time value
\* while t1_hit is false and equal to entry_price once t1_hit is true; sl_price
\* changes at most once (in the step that sets t1_hit) and never moves away
\* from entry.
C2_StopLoss == [](StopValue) /\ [][StopMovesOnlyAtT1]_vars

C2_Witness ==
    \E u \in Stored :
        /\ objs[u].status = "ACTIVE" /\ objs[u].t1_hit
        /\ objs[u].sl_price = objs[u].entry_price
        /\ objs[u].targets[1] # objs[u].entry_price

\* The monitor evaluates position u, laid out with a positive risk distance,
\* in a cycle whose price fetch returns no data
NoDataStep(u) ==
    /\ EvalStepOn(u)
    /\ RiskOf(objs[u]) > 0
    /\ MonitorEval(0, TRUE, persisted)

\* C3: when the price fetch returns no data, the monitor evaluates entry_price
\* and the position (max_price, t1_hit, sl_price, status, presence in the store)
\* is unchanged by that cycle, before and after T1 has been hit.
C3_NoDataKeepsPosition ==
    [][\A u \in 1..MaxTrades :
          NoDataStep(u) => /\ active_trades' = active_trades
                           /\ objs'[u] = objs[u]]_vars

\* C4 (as claimed): the P&L carried by the closed event of a position on which
\* T1 has been hit is never negative.
C4_NeverNegativeAfterT1 ==
    \A e \in ExitEvents : e.t.t1_hit => e.pnl >= 0

\* C4 (amended): for a position on which T1 has been hit the stop is at
\* entry_price, and the P&L carried by its closed event is negative only when the
\* price evaluated in the closing cycle lies strictly beyond entry_price on the
\* loss side (reason SL Hit); in every other case it is zero or positive.
C4_LossOnlyByGap ==
    \A e \in ExitEvents :
        e.t.t1_hit =>
            LET beyond == (e.exit_price - e.t.entry_price) * Factor(e.t.direction)
            IN /\ e.t.sl_price = e.t.entry_price
               /\ e.pnl < 0 => (e.reason = "SL Hit" /\ beyond < 0)
               /\ beyond >= 0 => e.pnl >= 0
               /\ beyond = 0 => e.pnl = 0

C4_Witness ==
    \E e \in ExitEvents : e.t.t1_hit /\ e.reason = "SL Hit" /\ e.pnl < 0

\* The exit conditions: BUY price <= sl_price or price >= T5, SELL price >=
\* sl_price or price <= T5
ExitCondition(t, price) ==
    IF t.direction = "BUY"
    THEN price <= t.sl_price \/ price >= t.targets[5]
    ELSE price >= t.sl_price \/ price <= t.targets[5]

\* C5: an ACTIVE position leaves the store only in a monitor cycle that
\* evaluates it at a price satisfying an exit condition, with its one closed
\* event emitted in that cycle, and a cycle that evaluates it at such a price
\* removes it.
C5_RemovedOnFirstExit ==
    [][\A u \in Stored :
          objs[u].status = "ACTIVE" =>
            /\ u \notin Refs(active_trades') =>
                  /\ EvalStepOn(u)
                  /\ closed[u] = 0 /\ closed'[u] = 1
                  /\ \E e \in ExitEvents' :
                        e.ref = u /\ ExitCondition(objs[u], e.exit_price)
            /\ \A resp \in Prices :
                  (EvalStepOn(u) /\ MonitorEval(resp, TRUE, persisted)
                   /\ ExitCondition(objs[u],
                         Ltp(objs[u], get_latest_price(is_connected, objs[u].sec_id, resp))))
                  => u \notin Refs(active_trades')]_vars

\* C6: every id place_trade assigns differs from the id of every position in
\* the store and of every position removed before.
C6_FreshIds ==
    [][next_uid' > next_uid =>
          /\ out'.id \notin Keys(active_trades)
          /\ out'.id \notin used_ids]_vars

\* C7: at the end of every monitor cycle the persisted store equals the
\* in-memory store.
C7_PersistedEqualsMemory ==
    pc = "loop" => load_trades(persisted) = Dump(active_trades, objs).recs

\* C8: a save_trades failure during a monitor cycle does not terminate the
\* monitor loop (stated for the close of a position laid out with a positive
\* risk distance).
C8_MonitorSurvivesSaveFailure ==
    ~(pc = "dead" /\ \E e \in ExitEvents : RiskOf(e.t) > 0)

\* C9: no position with a non-positive risk distance or a zero quantity enters
\* the store.
C9_NoInvalidPosition ==
    \A u \in Stored : objs[u].qty > 0 /\ RiskOf(objs[u]) > 0

\* Targets strictly ordered away from entry in the favourable direction
Ordered(t) ==
    LET f == Factor(t.direction)
    IN /\ (t.targets[1] - t.entry_price) * f > 0
       /\ \A i \in 1..4 : (t.targets[i + 1] - t.targets[i]) * f > 0

\* C10: every position in the store has its targets strictly ordered away from
\* entry in the favourable direction, and they never change after creation.
C10_TargetsOrderedAndFixed ==
    /\ [](\A u \in Stored : Ordered(objs[u]))
    /\ [][\A u \in 1..MaxTrades :
            (Alive(u) /\ Alive(u)') => objs'[u].targets = objs[u].targets]_vars

\* A record caught in the middle of the Target-1 update
Partial(t) == t.t1_hit /\ t.sl_price # t.entry_price

\* C11: no record a dashboard read renders and no record save_trades writes
\* has t1_hit true with sl_price different from entry_price, in any interleaving
\* of the monitor loop with the request handlers.
C11_NoPartialRecordObserved ==
    /\ \A i \in 1..Len(out.seen) : ~Partial(out.seen[i])
    /\ \A i \in 1..Len(persisted.recs) : ~Partial(persisted.recs[i])

\* The for loop starts: its list is the content of the store at that moment
CycleStart == pc # "for" /\ pc' = "for"
\* The for loop passes over the next position of its list
PassOverHead == pc = "for" /\ snapshot # <<>> /\ snapshot' = Tail(snapshot)

\* C12 (as claimed): removal from the store is the only way monitoring of a
\* position stops: every position in the store at the start of a monitor cycle
\* is evaluated in that cycle, and a removed position is not evaluated in any
\* later cycle.
C12_StoredIsEvaluated ==
    [][/\ CycleStart => snapshot' = active_trades
       /\ (PassOverHead /\ Head(snapshot).ref \in Stored) =>
             (out'.op = "eval" /\ out'.ref = Head(snapshot).ref)
       /\ (pc = "for" /\ pc' = "loop") => snapshot = <<>>
       /\ out'.op = "eval" => out'.ref \in SnapRefs(snapshot)]_vars

\* C12 (amended): monitoring of a position stops when it is removed from the
\* store or when its status leaves ACTIVE: every position in the store at the
\* start of a cycle is passed over in that cycle, evaluated if its status is
\* ACTIVE at that moment and skipped unchanged (and left in the store) if it is
\* not, and a position that was not in the store at the start of a cycle is not
\* evaluated in it.
C12_ActiveIsEvaluated ==
    [][/\ CycleStart => snapshot' = active_trades
       /\ PassOverHead =>
            LET u == Head(snapshot).ref
            IN /\ out'.ref = u
               /\ objs[u].status = "ACTIVE" => out'.op = "eval"
               /\ objs[u].status # "ACTIVE" =>
                     /\ out'.op = "skip"
                     /\ active_trades' = active_trades
                     /\ u \in Stored => objs'[u] = objs[u]
       /\ (pc = "for" /\ pc' = "loop") => snapshot = <<>>
       /\ out'.op = "eval" => out'.ref \in SnapRefs(snapshot)]_vars

C12_Witness ==
    /\ out.op = "skip"
    /\ out.ref \in Stored
    /\ objs[out.ref].status = "CONVERTED_TO_LIVE"
    /\ \E u \in Stored : objs[u].status = "ACTIVE"

\* The stop-loss condition and the Target-5 condition of the exit check
StopCondition(t, price) ==
    IF t.direction = "BUY" THEN price <= t.sl_price ELSE price >= t.sl_price
Target5Condition(t, price) ==
    IF t.direction = "BUY" THEN price >= t.targets[5] ELSE price <= t.targets[5]

\* The price the monitor evaluates position u at when the API answers resp
EvalPrice(u, resp) == Ltp(objs[u], get_latest_price(is_connected, objs[u].sec_id, resp))

\* C13: when the stop-loss condition and the Target-5 condition both hold for
\* the price evaluated in a cycle, the position closes with reason SL Hit; a
\* position closes with reason Target 5 Hit only at a price for which the
\* stop-loss condition is false and the Target-5 condition true.
C13_StopHasPriority ==
    /\ [](\A e \in ExitEvents :
            /\ e.reason \in {"SL Hit", "Target 5 Hit"}
            /\ StopCondition(e.t, e.exit_price) => e.reason = "SL Hit"
            /\ e.reason = "Target 5 Hit" =>
                  /\ ~StopCondition(e.t, e.exit_price)
                  /\ Target5Condition(e.t, e.exit_price))
    /\ [][\A u \in Stored : \A resp \in Prices :
            (/\ EvalStepOn(u) /\ MonitorEval(resp, TRUE, persisted)
             /\ StopCondition(objs[u], EvalPrice(u, resp))
             /\ Target5Condition(objs[u], EvalPrice(u, resp)))
            => \E e \in ExitEvents' :
                  /\ e.ref = u /\ e.reason = "SL Hit"
                  /\ e.exit_price = EvalPrice(u, resp)]_vars

C13_Witness ==
    \E e \in ExitEvents :
        /\ StopCondition(e.t, e.exit_price)
        /\ Target5Condition(e.t, e.exit_price)
        /\ e.reason = "SL Hit"

UpdateEvents == {out.notifs[i] : i \in {j \in 1..Len(out.notifs) : out.notifs[j].type = "update"}}

\* The monitor evaluates the ACTIVE trade dict u, in the store or only in the
\* loop's list, in this step
HeadEval(u) ==
    /\ pc = "for" /\ snapshot # <<>>
    /\ Head(snapshot).ref = u
    /\ objs[u].status = "ACTIVE"
    /\ out'.op = "eval" /\ out'.ref = u

\* price has reached or passed T1 in the favourable direction
ReachesT1(t, price) ==
    IF t.direction = "BUY" THEN price >= t.targets[1] ELSE price <= t.targets[1]

\* C14: for each position t1_hit starts false, goes to true at most once and
\* never returns to false; the Target 1 Hit notification is emitted exactly in
\* the pass that finds t1_hit false and a price that reaches or passes T1 (the
\* first such cycle), which sets the flag, so at most once per position.
C14_T1Once ==
    [][/\ \A u \in 1..MaxTrades :
            /\ (~Alive(u) /\ Alive(u)') => ~objs'[u].t1_hit
            /\ (Alive(u) /\ Alive(u)' /\ objs[u].t1_hit) => objs'[u].t1_hit
            /\ (Alive(u) /\ Alive(u)' /\ ~objs[u].t1_hit /\ objs'[u].t1_hit) =>
                  \E n \in UpdateEvents' : n.ref = u
       /\ Cardinality(UpdateEvents') <= 1
       /\ Len(SelectSeq(out'.notifs, LAMBDA n : n.type = "update")) <= 1
       /\ \A n \in UpdateEvents' :
            /\ HeadEval(n.ref)
            /\ ~objs[n.ref].t1_hit
            /\ Alive(n.ref)' => objs'[n.ref].t1_hit
            /\ \A e \in ExitEvents' : e.ref = n.ref => e.t.t1_hit
       /\ \A u \in 1..MaxTrades : \A resp \in Prices :
            (HeadEval(u) /\ MonitorEval(resp, TRUE, persisted)) =>
                ((\E n \in UpdateEvents' : n.ref = u)
                 <=> (~objs[u].t1_hit /\ ReachesT1(objs[u], EvalPrice(u, resp))))]_vars

C14_Witness ==
    \E n \in UpdateEvents :
        /\ n.ref \in Stored
        /\ objs[n.ref].t1_hit
        /\ objs[n.ref].targets[1] # objs[n.ref].entry_price

\* The better of two prices for a trade: the higher for BUY, the lower for SELL
Best(t, a, b) ==
    IF t.direction = "BUY" THEN (IF a >= b THEN a ELSE b) ELSE (IF a <= b THEN a ELSE b)

\* C15: max_price of every position starts at entry_price, is non-decreasing
\* for BUY and non-increasing for SELL, changes only in a monitor pass over the
\* position, and after each pass equals the best of its previous value and the
\* price evaluated in that pass (also in the closed event of a closing pass).
C15_MaxPriceMonotonic ==
    [][\A u \in 1..MaxTrades :
          /\ (~Alive(u) /\ Alive(u)') => objs'[u].max_price = objs'[u].entry_price
          /\ (Alive(u) /\ Alive(u)') =>
                /\ Best(objs[u], objs'[u].max_price, objs[u].max_price) = objs'[u].max_price
                /\ ~HeadEval(u) => objs'[u].max_price = objs[u].max_price
          /\ \A resp \in Prices :
                (HeadEval(u) /\ MonitorEval(resp, TRUE, persisted)) =>
                    LET best == Best(objs[u], objs[u].max_price, EvalPrice(u, resp))
                    IN /\ Alive(u)' => objs'[u].max_price = best
                       /\ \A e \in ExitEvents' : e.ref = u => e.max_price = best]_vars

C15_Witness ==
    /\ out.op = "eval"
    /\ out.ref \in Stored
    /\ objs[out.ref].direction = "SELL"
    /\ objs[out.ref].max_price < objs[out.ref].entry_price
    /\ objs[out.ref].t1_hit /\ UpdateEvents = {}

\* C16: the segment the monitor queries for a position is the segment its
\* entry price was obtained from at placement, so a position priced from a
\* non-F&O segment is evaluated against that segment's live prices.
C16_MonitorUsesEntrySegment ==
    [][\A u \in Stored :
          (EvalStepOn(u) /\ entry_seg[u] # NoSegment) =>
              MonitorSegment = entry_seg[u]]_vars

\* A pass over the stored position u, T1 not yet hit and laid out with a
\* positive risk distance, when the API answers resp
FreshPass(u, resp) ==
    /\ EvalStepOn(u)
    /\ MonitorEval(resp, TRUE, persisted)
    /\ ~objs[u].t1_hit
    /\ RiskOf(objs[u]) > 0

\* The pass closes u at Target 5, the Target-1 event emitted before the closed event
JumpClosesAtT5(u, resp) ==
    /\ Len(out'.notifs) = 2
    /\ out'.notifs[1].type = "update" /\ out'.notifs[1].ref = u
    /\ out'.notifs[2].type = "exit" /\ out'.notifs[2].ref = u
    /\ out'.notifs[2].reason = "Target 5 Hit"
    /\ out'.notifs[2].exit_price = EvalPrice(u, resp)
    /\ out'.notifs[2].t.t1_hit
    /\ u \notin Refs(active_trades')

\* The pass neither flips t1_hit nor closes u
NoFlipNoClose(u) ==
    /\ out'.notifs = <<>>
    /\ u \in Refs(active_trades')
    /\ ~objs'[u].t1_hit
    /\ objs'[u].sl_price = objs[u].sl_price

\* C17 (as claimed): a position with T1 not hit and risk distance > 0 that
\* sees a price at or beyond T5 is closed in that cycle with reason Target 5 Hit,
\* its Target-1 event before its closed event; a price strictly short of T1
\* causes no flip and no close.
C17_JumpAndShortOfT1 ==
    [][\A u \in Stored : \A resp \in Prices :
          FreshPass(u, resp) =>
            /\ Target5Condition(objs[u], EvalPrice(u, resp)) => JumpClosesAtT5(u, resp)
            /\ ~ReachesT1(objs[u], EvalPrice(u, resp)) => NoFlipNoClose(u)]_vars

\* C17 (amended): as claimed for a price at or beyond T5; a price strictly
\* short of T1 causes no flip, and no close unless it is at or beyond the
\* stop-loss, in which case the position closes with reason SL Hit, t1_hit still
\* false and no Target-1 event.
C17_JumpAndShortOfT1Amended ==
    [][\A u \in Stored : \A resp \in Prices :
          FreshPass(u, resp) =>
            /\ Target5Condition(objs[u], EvalPrice(u, resp)) => JumpClosesAtT5(u, resp)
            /\ (/\ ~ReachesT1(objs[u], EvalPrice(u, resp))
                /\ ~StopCondition(objs[u], EvalPrice(u, resp))) => NoFlipNoClose(u)
            /\ (/\ ~ReachesT1(objs[u], EvalPrice(u, resp))
                /\ StopCondition(objs[u], EvalPrice(u, resp))) =>
                  /\ Len(out'.notifs) = 1
                  /\ out'.notifs[1].type = "exit" /\ out'.notifs[1].ref = u
                  /\ out'.notifs[1].reason = "SL Hit"
                  /\ ~out'.notifs[1].t.t1_hit
                  /\ u \notin Refs(active_trades')]_vars

C17_Witness ==
    /\ out.op = "eval"
    /\ Len(out.notifs) = 2
    /\ out.notifs[1].type = "update"
    /\ out.notifs[2].type = "exit"
    /\ out.notifs[2].reason = "Target 5 Hit"
    /\ out.notifs[2].t.direction = "SELL"
    /\ RiskOf(out.notifs[2].t) > 0
    /\ out.notifs[2].exit_price = out.notifs[2].t.targets[5]

\* place_trade, called with stop distance sl_points in this step, has added one
\* record to the store and returned normally
Placed(sl_points) ==
    LET u == out'.ref
        t == objs'[u]
        n == Len(active_trades)
    IN /\ ~Alive(u)
       /\ Len(active_trades') = n + 1
       /\ SubSeq(active_trades', 1, n) = active_trades
       /\ active_trades'[n + 1] = [id |-> out'.id, ref |-> u]
       /\ t.id = out'.id
       /\ t.status = "ACTIVE" /\ ~t.t1_hit /\ t.max_price = t.entry_price
       /\ [sl_price |-> t.sl_price, targets |-> t.targets]
             = calculate_targets(t.entry_price, sl_points, t.direction)
       /\ persisted'.ok
       /\ \E i \in 1..Len(persisted'.recs) : persisted'.recs[i] = t
       /\ out'.notifs = <<notify_add(t.channel), notify_active(t.channel, u, t)>>

\* The stop distance POST /trade passes on for a form
FormSL(form) == IF form.qty.ok /\ form.sl.ok THEN form.sl.val ELSE 0

\* C18: a successful place_trade (from /trade, from convert_to_live or from the
\* automatic trade) adds exactly one record, ACTIVE, t1_hit false, max_price =
\* entry_price, sl_price and targets as calculate_targets gives them for the
\* stop distance passed in, and the file holds that record when the
\* notifications go out and place_trade returns; when the save fails nothing
\* is notified.
C18_PlaceTradeAddsOneRecord ==
    [][/\ (out'.op = "trade" /\ out'.msg = "Trade Executed Successfully") =>
             \A form \in Forms, pf \in PlaceQuotes, pe \in PlaceQuotes :
                 TradeRoute(form.sec_id, objs'[out'.ref].symbol, objs'[out'.ref].direction,
                            "VIP Channel", form.qty, form.sl, pf, pe, TRUE, TRUE, persisted)
                 => Placed(FormSL(form))
       /\ (out'.op = "convert" /\ out'.msg = "Converted: Trade Executed Successfully") =>
             Placed(ConvertSL)
       /\ (out'.op = "auto" /\ out'.msg = "Trade Executed Successfully") =>
             Placed(AutoSL)
       /\ (out'.op \in {"trade", "convert", "auto"} /\ out'.notifs # <<>> /\ ~out'.raised) =>
             (persisted'.ok /\ \E i \in 1..Len(persisted'.recs) :
                                  persisted'.recs[i] = objs'[out'.ref])
       /\ (out'.op \in {"trade", "auto"} /\ out'.raised) => out'.notifs = <<>>]_vars

\* C19: load_trades returns an empty store, without raising, when the file is
\* absent or cannot be parsed, and otherwise exactly the records of the file, in
\* order and field by field; the file holds what the last save_trades call that
\* completed wrote (a step that changes the file and returns normally leaves in
\* it the store as it is then).
C19_LoadTrades ==
    [][/\ out'.op = "restart" =>
            /\ ~out'.raised
            /\ ~persisted.ok => active_trades' = <<>>
            /\ persisted.ok =>
                  /\ Dump(active_trades', objs').recs = persisted.recs
                  /\ \A i \in 1..Len(active_trades') :
                        active_trades'[i].id = persisted.recs[i].id
            /\ Refs(active_trades') = {u \in 1..MaxTrades : Alive(u)'}
       /\ (persisted' # persisted /\ ~out'.raised) =>
            persisted' = save_trades(active_trades', objs')]_vars

C19_Witness ==
    /\ out.op = "restart"
    /\ persisted.ok
    /\ active_trades # <<>>
    /\ \E u \in Stored : objs[u].t1_hit

\* C20: whether the notifier's posts succeed or fail makes no difference to
\* what a placement, a conversion or a monitor pass leaves behind (store,
\* records, flags, removals, file, the thread's position): every such step
\* taken with one delivery outcome is the step taken with the other; no handler
\* raises and the monitor loop never stops.
C20_DeliveryFailureHasNoEffect ==
    /\ [](pc # "dead" /\ ~out.raised)
    /\ [][/\ out'.op = "eval" =>
               \A resp \in MonitorAnswers :
                   MonitorEvalPost(resp, TRUE, persisted, TRUE)
                   <=> MonitorEvalPost(resp, TRUE, persisted, FALSE)
          /\ out'.op = "skip" =>
               (MonitorEvalPost(0, TRUE, persisted, TRUE)
                <=> MonitorEvalPost(0, TRUE, persisted, FALSE))
          /\ (out'.op = "trade" /\ out'.ref # 0) =>
               \A form \in ValidForms, pf \in FnoAnswers :
                  \A pe \in EqAnswers(pf), orderOk \in OrderAnswers(trading_mode) :
                   TradeRoutePost(form.sec_id, objs'[out'.ref].symbol,
                                  objs'[out'.ref].direction, "VIP Channel", form.qty,
                                  form.sl, pf, pe, orderOk, TRUE, persisted, TRUE)
                   <=> TradeRoutePost(form.sec_id, objs'[out'.ref].symbol,
                                      objs'[out'.ref].direction, "VIP Channel", form.qty,
                                      form.sl, pf, pe, orderOk, TRUE, persisted, FALSE)
          /\ out'.op = "convert" =>
               \A trade_id \in Ids, pf \in FnoAnswers :
                  \A pe \in EqAnswers(pf), orderOk \in OrderAnswers("LIVE") :
                   ConvertPost(trade_id, pf, pe, orderOk, TRUE, TRUE, persisted, TRUE)
                   <=> ConvertPost(trade_id, pf, pe, orderOk, TRUE, TRUE, persisted,
                                   FALSE)]_vars

C20_Witness ==
    /\ ~delivered
    /\ out.op = "eval"
    /\ pc = "for"
    /\ \E e \in ExitEvents :
          /\ e.ref \notin Stored
          /\ e.t.t1_hit
          /\ RiskOf(e.t) > 0
    /\ persisted = save_trades(active_trades, objs)

\* A step that asks get_target_channel for a channel: the day's counter as the
\* step finds it, after the reset of a new day
CounterFound == IF stats_date # Day(now) THEN 0 ELSE free_count

\* C21: within one calendar day, for any sequence and any interleaving of
\* place_trade calls, at most one created position is routed to 'Free Group';
\* a position is created for 'Free Group' only while no trade has been counted
\* for it that day, and the first request of a new day resets the counter to 0.
C21_OneFreeTradePerDay ==
    /\ [](\A d \in Days : free_routed[d] <= 1)
    /\ [][/\ (next_uid' > next_uid /\ objs'[next_uid'].channel = "Free Group") =>
               (CounterFound = 0 /\ free_count' = 1)
          /\ (out'.op \in {"trade", "channel", "convert"} /\ stats_date # Day(now)
              /\ stats_date' # stats_date) =>
               (stats_date' = Day(now) /\ free_count' <= 1)]_vars

\* What place_trade answers and leaves behind in the state it is called in when
\* the mode is LIVE, the engine connected and place_order raises
OrderFails(r) ==
    /\ r.msg = "API Error" /\ ~r.raised
    /\ r.st.at = active_trades /\ r.st.ob = objs /\ r.st.nuid = next_uid
    /\ r.st.file = persisted
    /\ r.st.fcount <= free_count
    /\ r.notifs = <<>>

\* C22: place_trade called in LIVE mode while connected, the broker order call
\* failing, returns 'API Error' and leaves the engine state unchanged: no position
\* is added to the store, nothing is persisted, the Free Group counter is not
\* incremented and no notification is emitted.
C22_OrderFailureLeavesState ==
    /\ []((is_connected /\ next_uid < MaxTrades) =>
            \A form \in ValidForms, direction \in Directions, chan \in Channels,
               pf \in FnoAnswers :
              \A pe \in EqAnswers(pf) :
                OrderFails(place_trade(Engine, "NIFTY", form.sec_id, direction,
                                       form.qty.val, chan, form.sl.val, "LIVE", pf, pe,
                                       FALSE, TRUE, persisted)))
    /\ [][(out'.op = "trade" /\ trading_mode = "LIVE" /\ is_connected) =>
            /\ \A form \in ValidForms, chan \in Channels, direction \in Directions :
                  (req = NoRequest /\ req' = NoRequest
                   /\ TradeRoute(form.sec_id, "NIFTY", direction, chan, form.qty, form.sl,
                                 0, 0, FALSE, TRUE, persisted))
                  => out'.msg = "API Error"
            /\ out'.msg = "API Error" =>
                  /\ active_trades' = active_trades /\ objs' = objs
                  /\ next_uid' = next_uid /\ used_ids' = used_ids
                  /\ persisted' = persisted
                  /\ free_count' <= free_count
                  /\ free_routed' = free_routed
                  /\ out'.notifs = <<>> /\ out'.ref = 0]_vars

C22_Witness ==
    /\ out.op = "trade" /\ out.msg = "API Error"
    /\ trading_mode = "LIVE" /\ is_connected
    /\ free_count = 1
    /\ \E u \in Stored : objs[u].channel = "Free Group"

\* The paper position stored under trade_id is already marked CONVERTED_TO_LIVE
Promoted(trade_id) ==
    /\ Get(active_trades, trade_id) # 0
    /\ objs[Get(active_trades, trade_id)].status = "CONVERTED_TO_LIVE"

\* C23: a paper position is promoted to live at most once: a convert_to_live
\* call on a position already marked CONVERTED_TO_LIVE returns 'Invalid Trade'
\* and changes nothing, so no further LIVE order is placed and no further LIVE
\* position is created for it.
C23_PromotedAtMostOnce ==
    [][out'.op = "convert" =>
          \A trade_id \in Ids, pf \in FnoAnswers :
            \A pe \in EqAnswers(pf), orderOk \in OrderAnswers("LIVE") :
              (Promoted(trade_id)
               /\ convert_to_live(trade_id, pf, pe, orderOk, TRUE, TRUE, persisted))
              => /\ out'.msg = "Invalid Trade"
                 /\ active_trades' = active_trades /\ objs' = objs
                 /\ next_uid' = next_uid /\ persisted' = persisted]_vars

\* C24: convert_to_live marks the paper position CONVERTED_TO_LIVE only when a
\* new LIVE position has been created in that call; when the live order fails
\* (place_trade returns an API error) the paper position keeps status ACTIVE,
\* stays in the store and is evaluated by the next monitor pass over it.
C24_MarkedOnlyWhenLiveCreated ==
    /\ [][\A u \in Stored :
            (objs[u].status = "ACTIVE" /\ Alive(u)'
             /\ objs'[u].status = "CONVERTED_TO_LIVE") =>
                /\ out'.op = "convert"
                /\ next_uid' = next_uid + 1
                /\ objs'[next_uid'].mode = "LIVE"
                /\ next_uid' \in Refs(active_trades')]_vars
    /\ [][(out'.op = "convert" /\ out'.msg = "Converted: API Error") =>
            /\ active_trades' = active_trades
            /\ objs' = objs
            /\ \A u \in Stored : objs[u].mode = "PAPER" => objs'[u].status = objs[u].status]_vars

\* The answer of a convert_to_live call that reports the position as converted
ConvertedResult(o) ==
    /\ o.op = "convert"
    /\ o.msg \in {"Converted: API Error", "Converted: Trade Executed Successfully"}

\* C25: for any interleaving of convert_to_live(id) with the monitor loop the
\* position is never both closed by the monitor and reported as converted: no
\* closed event is emitted for a position convert_to_live has started on or has
\* marked, a closed position is not in the store, and convert_to_live returns no
\* 'Converted' result for a position the monitor has closed and removed.
C25_NeverClosedAndConverted ==
    /\ [](\A u \in Stored : closed[u] = 0)
    /\ [][/\ \A e \in ExitEvents' :
               /\ e.t.status = "ACTIVE"
               /\ ~(req.op = "convert" /\ req.tref = e.ref)
          /\ (ConvertedResult(out') /\ req.op = "convert" /\ req' = NoRequest) =>
               closed[req.tref] = 0]_vars

====
